---- MODULE Spec2Model ----
(***************************************************************************)
(* Model of the analytical core of src/app.py: compute_monthly_returns and *)
(* find_correlations.                                                      *)
(*                                                                         *)
(* A table (pandas DataFrame) is a record                                  *)
(*    [columns : sequence of tickers  (column order),                      *)
(*     index   : set of month-end dates (row labels, ascending),           *)
(*     data    : ticker -> (partial function date -> number)]              *)
(* A cell is present iff its date is in the DOMAIN of the column; NaN is   *)
(* the absence of the date.  A month-end date is the integer               *)
(* year*12 + (month-1): download_data resamples with "ME", so a table has  *)
(* one row per calendar month.                                             *)
(*                                                                         *)
(* Numbers: prices are positive integers that divide 100, so that every    *)
(* percentage return is an integer and \div is exact.  A float that can be *)
(* NaN (pct_subio, retorno_prom) is NaN or Num(v): pct_subio in tenths of  *)
(* a percent, retorno_prom in hundredths of a percent.                     *)
(***************************************************************************)
EXTENDS Integers, Sequences, FiniteSets

VARIABLES prices, returns, other_prices, other_returns,
          ref_ticker, ref_month, min_overlap, corr, pc,
          \* get_monthly_stats and the sector aggregation
          stats, available_tickers, selected_sectors, metric, sector_rows,
          \* get_available_sectors
          tickers, sectors_data,
          \* the monthly resampling of one close series
          close, monthly,
          \* _extract_close_series
          df, wanted, extracted,
          \* download_data
          requested, provider, next_ticker, all_data, failed, st_warning, st_error,
          \* a call repeated on the same input
          first_call, again, tie_break,
          \* the page script and st.session_state
          session, load_btn, years_back, loaded_from

\* what compute_monthly_returns and find_correlations work on
coreVars == <<prices, returns, other_prices, other_returns,
              ref_ticker, ref_month, min_overlap, corr>>
statsVars == <<stats, available_tickers, selected_sectors, metric, sector_rows>>
sectorVars == <<tickers, sectors_data>>
resampleVars == <<close, monthly>>
extractVars == <<df, wanted, extracted>>
downloadVars == <<requested, provider, next_ticker, all_data, failed,
                  st_warning, st_error>>

frameVars == <<first_call, again, tie_break>>
sessionVars == <<session, load_btn, years_back, loaded_from>>

vars == <<coreVars, pc, statsVars, sectorVars, resampleVars, extractVars,
          downloadVars, frameVars, sessionVars>>

(* ------------------------------ bounds -------------------------------- *)
\* longest list of tickers given to get_available_sectors
MaxTickers == 4
\* longest close series drawn for the resampling
MaxObservations == 3
\* most rows of a provider table given to _extract_close_series
MaxRows == 2
\* first year of the modelled history
BaseYear == 2019
\* largest min_overlap a query passes (0 .. MaxOverlap)
MaxOverlap == 2

\* return values (percent) of the return tables that are drawn directly
RetVals == {-1, 0, 1}
\* prices of the price tables (divisors of 100: returns are exact integers)
PriceVals == {2, 4, 5}

(* ------------------------------ dates --------------------------------- *)
DateOf(y, m) == y * 12 + (m - 1)
Year(d) == d \div 12
Month(d) == (d % 12) + 1

\* rows of the drawn return tables: Nov, Dec of the first year, Jan and Dec
\* of the second
RetDates == {DateOf(BaseYear, 11), DateOf(BaseYear, 12),
             DateOf(BaseYear + 1, 1), DateOf(BaseYear + 1, 12)}
\* rows of the drawn price tables: three consecutive months
PriceDates == {DateOf(BaseYear, 1), DateOf(BaseYear, 2), DateOf(BaseYear, 3)}

(* ------------------------------ tables -------------------------------- *)
EmptyTable == [columns |-> <<>>, index |-> {}, data |-> <<>>]

Range(s) == {s[i] : i \in 1..Len(s)}

\* all partial functions from dates ds to values vs
Columns(ds, vs) == UNION {[S -> vs] : S \in SUBSET ds}

\* the index taken as the dates that every series has
DataFrame_inner(cols, data) ==
    [columns |-> cols,
     index   |-> {d \in UNION {DOMAIN data[t] : t \in Range(cols)} :
                     \A t \in Range(cols) : d \in DOMAIN data[t]},
     data    |-> data]
\* pd.DataFrame(dict of Series): the index is the union of the series' dates
DataFrame(cols, data) ==
    [columns |-> cols,
     index   |-> UNION {DOMAIN data[t] : t \in Range(cols)},
     data    |-> data]

(* ------------------------------ floats -------------------------------- *)
NaN == [nan |-> TRUE]
Num(v) == [nan |-> FALSE, val |-> v]
IsNaN(x) == x.nan

RECURSIVE SumOver(_, _)
SumOver(f, S) ==
    IF S = {} THEN 0
    ELSE LET d == CHOOSE e \in S : TRUE
         IN  f[d] + SumOver(f, S \ {d})

\* round(a / n) to the nearest integer, ties to even (numpy rounding)
RoundHalfEven(a, n) ==
    LET q == a \div n
        r == a - q * n
    IN  IF 2 * r < n THEN q
        ELSE IF 2 * r > n THEN q + 1
        ELSE IF q % 2 = 0 THEN q ELSE q + 1

\* round(k / n * 100, 1) in tenths; k / 0 on a numpy integer is NaN
RoundPct(k, n) == IF n = 0 THEN NaN ELSE Num(RoundHalfEven(1000 * k, n))

\* round(vals.mean(), 2) in hundredths; the mean of no values is NaN
RoundMean(f, S) ==
    IF S = {} THEN NaN
    ELSE Num(RoundHalfEven(100 * SumOver(f, S), Cardinality(S)))

(* ------------------- compute_monthly_returns -------------------------- *)
\* the row of the table just above row d, when there is one
HasPrevRow(index, d) == \E e \in index : e < d
PrevRow(index, d) == CHOOSE e \in index : e < d /\ \A g \in index : g < d => g <= e

\* pct_change with the gaps filled backwards first: a price with no price
\* in the row above is compared with itself
pct_change_bfill(index, col) ==
    [d \in {e \in DOMAIN col : HasPrevRow(index, e)}
        |-> IF PrevRow(index, d) \in DOMAIN col
            THEN (100 * (col[d] - col[PrevRow(index, d)])) \div col[PrevRow(index, d)]
            ELSE 0]

\* Series.pct_change(fill_method=None) * 100 on one column of a table with
\* the given index: row d gets a value iff the column has a price in row d
\* and in the row just above it
pct_change(index, col) ==
    [d \in {e \in DOMAIN col : HasPrevRow(index, e) /\ PrevRow(index, e) \in DOMAIN col}
        |-> (100 * (col[d] - col[PrevRow(index, d)])) \div col[PrevRow(index, d)]]

\* no row removed
dropna_none(index, cols, data) == index
\* returns.dropna(how="all"): the rows in which some column has a value
dropna_all(index, cols, data) ==
    {d \in index : \E t \in Range(cols) : d \in DOMAIN data[t]}

compute_monthly_returns(p) ==
    LET data == [t \in Range(p.columns) |-> pct_change(p.index, p.data[t])]
    IN  [columns |-> p.columns,
         index   |-> dropna_all(p.index, p.columns, data),
         data    |-> data]

(* ----------------------- find_correlations ---------------------------- *)
\* col[col.index.month == m]
MonthData(col, m) == [d \in {e \in DOMAIN col : Month(e) = m} |-> col[d]]

\* series.index.year.tolist(); a table has one row per (year, month), so
\* the years of one calendar month are distinct
YearsOf(series) == {Year(d) : d \in DOMAIN series}

\* ref_month_data[ref_month_data < 0].index.year.tolist()
ref_down_years(ref_month_data) ==
    {Year(d) : d \in {e \in DOMAIN ref_month_data : ref_month_data[e] < 0}}

\* [y for y in ref_down_years if y in same_idx.year.tolist()]
common_years(years, month_data) == {y \in years : y \in YearsOf(month_data)}

\* the filter on the common years left out
vals_of_all_years(month_data, common) == month_data

\* same_month[same_month.index.year.isin(common_years)]
vals_when_ref_down(month_data, common) ==
    [d \in {e \in DOMAIN month_data : Year(e) \in common} |-> month_data[d]]

\* (vals > 0).sum()
subio(vals) == Cardinality({d \in DOMAIN vals : vals[d] > 0})

next_month(m) == (m % 12) + 1

\* December treated like any other month
next_years_same_year(m, down) == down

\* the years in which the next month is looked up
next_years(m, down) == IF m = 12 THEN {y + 1 : y \in down} ELSE down

\* the gate with a strict comparison
overlap_gate_strict(n, min) == n > min

\* len(common_years) >= min_overlap
overlap_gate(n, min) == n >= min

\* the dictionary appended to rows
CorrRow(ticker, periodo, mes, common, vals) ==
    [ticker                |-> ticker,
     periodo               |-> periodo,
     mes                   |-> mes,
     n_anos                |-> Cardinality(common),
     subio_cuando_ref_bajo |-> subio(vals),
     pct_subio             |-> RoundPct(subio(vals), Cardinality(common)),
     retorno_prom          |-> RoundMean(vals, DOMAIN vals)]

\* the "Mismo mes" part of one pass of the loop over the columns
same_month_rows(col, ticker, m, down, min) ==
    LET same_month == MonthData(col, m)
        common     == common_years(down, same_month)
    IN  IF overlap_gate(Cardinality(common), min)
        THEN <<CorrRow(ticker, "Mismo mes", m, common,
                       vals_when_ref_down(same_month, common))>>
        ELSE <<>>

\* the "Mes siguiente" part of one pass of the loop over the columns
next_month_rows(col, ticker, m, down, min) ==
    LET next_month_data == MonthData(col, next_month(m))
        common_next     == common_years(next_years(m, down), next_month_data)
    IN  IF overlap_gate(Cardinality(common_next), min)
        THEN <<CorrRow(ticker, "Mes siguiente", next_month(m), common_next,
                       vals_when_ref_down(next_month_data, common_next))>>
        ELSE <<>>

\* the loop over returns.columns, from column i on
RECURSIVE corr_rows(_, _, _, _, _, _)
corr_rows(r, i, ref, m, down, min) ==
    IF i > Len(r.columns) THEN <<>>
    ELSE LET ticker == r.columns[i]
             here   == IF ticker = ref THEN <<>>
                       ELSE same_month_rows(r.data[ticker], ticker, m, down, min)
                            \o next_month_rows(r.data[ticker], ticker, m, down, min)
         IN  here \o corr_rows(r, i + 1, ref, m, down, min)

\* injective maps 1..n -> 1..n
Perms(n) == {f \in [1..n -> 1..n] : \A i, j \in 1..n : f[i] = f[j] => i = j}

IsNaNRow(row) == IsNaN(row.pct_subio)
HasPctRow(row) == ~IsNaN(row.pct_subio)

\* df.sort_values("pct_subio", ascending=False).reset_index(drop=True) with
\* the default kind="quicksort": rows with a NaN key go last in their
\* original order; the others are in descending key order, and the order
\* of rows with equal keys is not specified by the sort (it is not stable)
sort_values(rows) ==
    LET keyed == SelectSeq(rows, HasPctRow)
        nans  == SelectSeq(rows, IsNaNRow)
        n     == Len(keyed)
    IN  {[i \in 1..n |-> keyed[f[i]]] \o nans :
            f \in {g \in Perms(n) :
                     \A i \in 1..(n - 1) :
                        keyed[g[i]].pct_subio.val >= keyed[g[i + 1]].pct_subio.val}}

KeyError == [fault |-> "KeyError", rows |-> <<>>]
Returned(rows) == [fault |-> "none", rows |-> rows]

\* the possible results of find_correlations(r, ref, m, min)
find_correlations(r, ref, m, min) ==
    IF ref \notin Range(r.columns) THEN {KeyError}
    ELSE LET ref_month_data == MonthData(r.data[ref], m)
         IN  IF DOMAIN ref_month_data = {} THEN {Returned(<<>>)}
             ELSE LET rows == corr_rows(r, 1, ref, m, ref_down_years(ref_month_data), min)
                  IN  IF rows = <<>> THEN {Returned(<<>>)}
                      ELSE {Returned(s) : s \in sort_values(rows)}

(* --------------------------- inputs ----------------------------------- *)
\* rows of the drawn three-column return tables: one December and the
\* January after it
WideDates == {DateOf(BaseYear, 12), DateOf(BaseYear + 1, 1)}

PriceColumnOrders == {<<"A">>, <<"A", "B">>}

\* return tables as compute_monthly_returns leaves them (a column may be
\* entirely empty: an instrument with a single price has no return)
ReturnTablesOf(cols, dates) ==
    {DataFrame(cols, data) : data \in [Range(cols) -> Columns(dates, RetVals)]}
\* two instruments over RetDates
NarrowReturnTables == ReturnTablesOf(<<"A", "B">>, RetDates)
\* three instruments over WideDates
WideReturnTables == ReturnTablesOf(<<"A", "B", "C">>, WideDates)

\* price tables as download_data builds them: no column is entirely empty
PriceTablesOf(cols) ==
    {DataFrame(cols, data) :
        data \in [Range(cols) -> (Columns(PriceDates, PriceVals) \ {<<>>})]}
PriceTables == UNION {PriceTablesOf(cols) : cols \in PriceColumnOrders}

\* reference tickers of a query: the columns and one identifier that is none
RefTickers == {"A", "B", "Z"}
RefMonths == {11, 12}

(* ------------------------- get_monthly_stats -------------------------- *)
\* the values of a series below / not above v
CountBelow(vals, v) == Cardinality({d \in DOMAIN vals : vals[d] < v})
CountUpTo(vals, v) == Cardinality({d \in DOMAIN vals : vals[d] <= v})

\* the k-th smallest value of a non-empty series (k = 1 .. number of values)
KthSmallest(vals, k) ==
    CHOOSE v \in {vals[d] : d \in DOMAIN vals} :
        CountBelow(vals, v) < k /\ k <= CountUpTo(vals, v)

MaxOf(vals) == KthSmallest(vals, Cardinality(DOMAIN vals))
MinOf(vals) == KthSmallest(vals, 1)

\* round(vals.median(), 2) in hundredths: the middle value, or the mean of
\* the two middle values
RoundMedian(vals) ==
    LET n == Cardinality(DOMAIN vals)
    IN  IF n % 2 = 1 THEN Num(100 * KthSmallest(vals, (n + 1) \div 2))
        ELSE Num(RoundHalfEven(100 * (KthSmallest(vals, n \div 2)
                                        + KthSmallest(vals, (n \div 2) + 1)), 2))

RECURSIVE SumSquares(_, _)
SumSquares(f, S) ==
    IF S = {} THEN 0
    ELSE LET d == CHOOSE e \in S : TRUE
         IN  f[d] * f[d] + SumSquares(f, S \ {d})

\* round(100 * sqrt(num / den)) to the nearest integer, ties to even
RoundSqrt100(num, den, limit) ==
    LET up == CHOOSE k \in 0..limit :
                 /\ (2 * k + 1) * (2 * k + 1) * den > 40000 * num
                 /\ k = 0 \/ (2 * k - 1) * (2 * k - 1) * den <= 40000 * num
    IN  IF up > 0 /\ (2 * up - 1) * (2 * up - 1) * den = 40000 * num /\ up % 2 = 1
        THEN up - 1 ELSE up

\* round(vals.std(), 2) in hundredths: the sample standard deviation
\* (pandas divides by n - 1), NaN for a single value
RoundStd(vals) ==
    LET n == Cardinality(DOMAIN vals)
        sum == SumOver(vals, DOMAIN vals)
    IN  IF n < 2 THEN NaN
        ELSE Num(RoundSqrt100(n * SumSquares(vals, DOMAIN vals) - sum * sum,
                              n * (n - 1),
                              100 * (MaxOf(vals) - MinOf(vals))))

\* returns that did not rise counted as falls
bajo_or_flat(vals) == Cardinality({d \in DOMAIN vals : vals[d] <= 0})
\* (vals < 0).sum()
bajo(vals) == Cardinality({d \in DOMAIN vals : vals[d] < 0})

\* the win rate taken over the rises and falls only
StatsRow_up_down(ticker, month, vals) ==
    [ticker       |-> ticker,
     month        |-> month,
     veces_subio  |-> subio(vals),
     veces_bajo   |-> bajo(vals),
     total_anos   |-> Cardinality(DOMAIN vals),
     pct_sube     |-> RoundPct(subio(vals), subio(vals) + bajo(vals)),
     retorno_prom |-> RoundMean(vals, DOMAIN vals),
     retorno_med  |-> RoundMedian(vals),
     retorno_max  |-> Num(100 * MaxOf(vals)),
     retorno_min  |-> Num(100 * MinOf(vals)),
     std          |-> RoundStd(vals)]
\* the dictionary appended to rows for one (ticker, month) with values
StatsRow(ticker, month, vals) ==
    [ticker       |-> ticker,
     month        |-> month,
     veces_subio  |-> subio(vals),
     veces_bajo   |-> bajo(vals),
     total_anos   |-> Cardinality(DOMAIN vals),
     pct_sube     |-> RoundPct(subio(vals), Cardinality(DOMAIN vals)),
     retorno_prom |-> RoundMean(vals, DOMAIN vals),
     retorno_med  |-> RoundMedian(vals),
     retorno_max  |-> Num(100 * MaxOf(vals)),
     retorno_min  |-> Num(100 * MinOf(vals)),
     std          |-> RoundStd(vals)]

\* months with a single return skipped as well
RECURSIVE month_rows_min_two(_, _, _)
month_rows_min_two(col, ticker, month) ==
    IF month > 12 THEN <<>>
    ELSE LET vals == MonthData(col, month)
         IN  (IF Cardinality(DOMAIN vals) <= 1 THEN <<>>
              ELSE <<StatsRow(ticker, month, vals)>>)
                \o month_rows_min_two(col, ticker, month + 1)
\* the loop over range(1, 13) for one column, from month on
RECURSIVE month_rows(_, _, _)
month_rows(col, ticker, month) ==
    IF month > 12 THEN <<>>
    ELSE LET vals == MonthData(col, month)
         IN  (IF DOMAIN vals = {} THEN <<>> ELSE <<StatsRow(ticker, month, vals)>>)
                \o month_rows(col, ticker, month + 1)

\* the loop over returns.columns, from column i on
RECURSIVE stats_rows(_, _)
stats_rows(r, i) ==
    IF i > Len(r.columns) THEN <<>>
    ELSE month_rows(r.data[r.columns[i]], r.columns[i], 1) \o stats_rows(r, i + 1)

\* pd.DataFrame(rows): the records in the order of emission
get_monthly_stats(r) == stats_rows(r, 1)

\* rows of the return tables drawn for the statistics: three Marches and
\* one April for a single instrument, fewer rows for more instruments
StatsDates == {DateOf(BaseYear, 3), DateOf(BaseYear + 1, 3),
               DateOf(BaseYear + 2, 3), DateOf(BaseYear, 4)}
PairDates == {DateOf(BaseYear, 3), DateOf(BaseYear, 4), DateOf(BaseYear + 1, 3)}
SectorDates == {DateOf(BaseYear, 3), DateOf(BaseYear + 1, 3)}

\* one instrument over StatsDates
StatsReturnTables == ReturnTablesOf(<<"AAL">>, StatsDates)
\* two instruments of different sectors over PairDates
PairReturnTables == ReturnTablesOf(<<"ZZZ", "AAL">>, PairDates)
\* three instruments, two of one sector, over SectorDates
SectorReturnTables == ReturnTablesOf(<<"AAL", "ZZZ", "DAL">>, SectorDates)
\* three instruments of one sector in a single March
AirlineReturnTables == ReturnTablesOf(<<"DAL", "UAL", "AAL">>, {DateOf(BaseYear, 3)})

(* ------------- a call and the table object it was given --------------- *)
\* A call is [input, output]: the caller's table object as the call leaves
\* it, and the value returned.

\* the dropna(inplace=True) applied to the caller's table
compute_monthly_returns_call_inplace(p) ==
    [input  |-> [columns |-> p.columns,
                 index   |-> compute_monthly_returns(p).index,
                 data    |-> [t \in Range(p.columns) |->
                                [d \in DOMAIN p.data[t] \cap compute_monthly_returns(p).index
                                    |-> p.data[t][d]]]],
     output |-> compute_monthly_returns(p)]
\* prices.pct_change(...) * 100 builds a new table, returns, and the
\* dropna(inplace=True) works on that one
compute_monthly_returns_call(p) ==
    [input |-> p, output |-> compute_monthly_returns(p)]

\* the loop reads returns_copy = returns.copy(), whose index is replaced
get_monthly_stats_call(r) ==
    LET returns_copy == r
    IN  [input |-> r, output |-> get_monthly_stats(returns_copy)]

\* the rows handed to sort_values by find_correlations(r, ref, m, min);
\* none when it returns or raises before sorting
rows_to_sort(r, ref, m, min) ==
    IF ref \notin Range(r.columns) THEN <<>>
    ELSE LET ref_month_data == MonthData(r.data[ref], m)
         IN  IF DOMAIN ref_month_data = {} THEN <<>>
             ELSE corr_rows(r, 1, ref, m, ref_down_years(ref_month_data), min)

\* The order sort_values gives to rows with equal keys is not specified,
\* but the sort is a function of its input: sorts is the set of the
\* [rows, sorted] seen so far, and the same rows come out the same way.
\* The possible calls of find_correlations on returns_copy = returns.copy().
find_correlations_call(r, ref, m, min, sorts) ==
    LET returns_copy == r
        rows == rows_to_sort(returns_copy, ref, m, min)
    IN  {[input |-> r, output |-> out] :
            out \in {o \in find_correlations(returns_copy, ref, m, min) :
                        \A known \in sorts : known.rows = rows => o.rows = known.sorted}}

\* the tables drawn for the repeated calls: price tables of one or two
\* instruments over PriceDates, return tables of three over WideDates
FramePriceVals == {2, 4}
FrameRetVals == {-1, 1}
FramePriceTables ==
    UNION {{DataFrame(cols, data) :
               data \in [Range(cols) -> (Columns(PriceDates, FramePriceVals) \ {<<>>})]} :
           cols \in PriceColumnOrders}
FrameReturnTables ==
    {DataFrame(<<"A", "B", "C">>, data) :
        data \in [{"A", "B", "C"} -> Columns(WideDates, FrameRetVals)]}
\* reference months of the repeated query: February for the price tables'
\* returns, December for the return tables
FrameMonths == {2, 12}
FrameOverlaps == {0, 1}

(* ------------------------------ sectors ------------------------------- *)
\* the entries of SECTOR_MAP for the instruments of the model
SECTOR_MAP ==
    [t \in {"AAL", "DAL", "UAL", "AAPL", "C"} |->
        CASE t \in {"AAL", "DAL", "UAL"} -> "Aerolíneas"
          [] t = "AAPL" -> "Tecnología"
          [] t = "C" -> "Bancos"]

\* SECTOR_MAP.get(ticker, "Otros")
get_ticker_sector(ticker) ==
    IF ticker \in DOMAIN SECTOR_MAP THEN SECTOR_MAP[ticker] ELSE "Otros"

\* the tickers of ts that resolve to sector, in the order of ts
sector_members(ts, sector) ==
    SelectSeq(ts, LAMBDA t : get_ticker_sector(t) = sector)

\* sectors.setdefault(sector, []).append(t) over ts: one entry per sector,
\* in the order in which the sectors first appear
RECURSIVE grouped_from(_, _, _)
grouped_from(ts, i, seen) ==
    IF i > Len(ts) THEN <<>>
    ELSE LET sector == get_ticker_sector(ts[i])
         IN  IF sector \in seen THEN grouped_from(ts, i + 1, seen)
             ELSE <<[sector |-> sector, tickers |-> sector_members(ts, sector)]>>
                     \o grouped_from(ts, i + 1, seen \cup {sector})

\* where sorted() puts entry e among the already sorted entries: after
\* every entry whose key is not greater (sorted is stable)
insert_ascending(srt, e) ==
    LET k == Cardinality({i \in 1..Len(srt) : Len(srt[i].tickers) <= Len(e.tickers)})
    IN  SubSeq(srt, 1, k) \o <<e>> \o SubSeq(srt, k + 1, Len(srt))
insert_sorted(srt, e) ==
    LET k == Cardinality({i \in 1..Len(srt) : -Len(srt[i].tickers) <= -Len(e.tickers)})
    IN  SubSeq(srt, 1, k) \o <<e>> \o SubSeq(srt, k + 1, Len(srt))

\* sorted(items, key=lambda x: -len(x[1])) of the first n items
RECURSIVE sorted_by_size(_, _)
sorted_by_size(items, n) ==
    IF n = 0 THEN <<>>
    ELSE insert_sorted(sorted_by_size(items, n - 1), items[n])

\* the dict returned, as the sequence of its items
get_available_sectors(ts) ==
    LET items == grouped_from(ts, 1, {})
    IN  sorted_by_size(items, Len(items))

\* sectors_data.get(sector, [])
sector_get(sd, sector) ==
    IF \E i \in 1..Len(sd) : sd[i].sector = sector
    THEN sd[CHOOSE i \in 1..Len(sd) : sd[i].sector = sector].tickers
    ELSE <<>>

(* ----------------- chart_sector_monthly_comparison -------------------- *)
RECURSIVE GCD(_, _)
GCD(a, b) == IF b = 0 THEN a ELSE GCD(b, a % b)

\* the quotient a / n (n > 0) as a fraction in lowest terms
Ratio(a, n) ==
    LET g == GCD(IF a < 0 THEN -a ELSE a, n)
    IN  [num |-> a \div g, den |-> n \div g]

RECURSIVE SumMetric(_, _)
SumMetric(recs, metric_col) ==
    IF recs = <<>> THEN 0
    ELSE Head(recs)[metric_col].val + SumMetric(Tail(recs), metric_col)

\* month_data[metric].mean() over every record of the sector, whatever its month
month_data_all_months(sector_stats, month) == sector_stats
\* sector_stats[sector_stats["month"] == month]
month_data_of(sector_stats, month) ==
    SelectSeq(sector_stats, LAMBDA rec : rec.month = month)

\* the loop over range(1, 13) for one sector, from month on
RECURSIVE sector_month_rows(_, _, _, _)
sector_month_rows(sector_stats, sector, metric_col, month) ==
    IF month > 12 THEN <<>>
    ELSE LET month_data == month_data_of(sector_stats, month)
         IN  (IF month_data = <<>> THEN <<>>
              ELSE <<[sector    |-> sector,
                      month     |-> month,
                      valor     |-> Ratio(SumMetric(month_data, metric_col),
                                          Len(month_data)),
                      n_tickers |-> Len(month_data)]>>)
                \o sector_month_rows(sector_stats, sector, metric_col, month + 1)

\* the loop over selected_sectors, from sector i on
RECURSIVE sector_rows_from(_, _, _, _, _)
sector_rows_from(stats_df, sd, sel, metric_col, i) ==
    IF i > Len(sel) THEN <<>>
    ELSE LET sector_tickers == sector_get(sd, sel[i])
             sector_stats == SelectSeq(stats_df,
                                LAMBDA rec : rec.ticker \in Range(sector_tickers))
         IN  (IF sector_tickers = <<>> THEN <<>>
              ELSE sector_month_rows(sector_stats, sel[i], metric_col, 1))
                \o sector_rows_from(stats_df, sd, sel, metric_col, i + 1)

\* the rows behind the chart; no chart (None) when there are none. A table
\* of no records has no "ticker" column: stats_df["ticker"] raises KeyError
\* for the first selected sector that has tickers
chart_sector_monthly_comparison(stats_df, avail, sel, metric_col) ==
    LET sd == get_available_sectors(avail)
    IN  IF stats_df = <<>> /\ \E i \in 1..Len(sel) : sector_get(sd, sel[i]) # <<>>
        THEN KeyError
        ELSE Returned(sector_rows_from(stats_df, sd, sel, metric_col, 1))

\* the sector selections and metrics of the sector tab
SectorSelections ==
    {<<"Aerolíneas">>, <<"Otros", "Aerolíneas">>, <<"Tecnología", "Aerolíneas">>}
Metrics == {"pct_sube", "retorno_prom"}

(* --------------- close.resample("ME").last().dropna() ----------------- *)
\* A close series is a sequence of observations [date, day, price] in the
\* order of the provider's rows: date is the calendar month (as DateOf),
\* day the day of the month. The monthly series is the sequence of
\* [date, price], one per month-end label.

\* the positions of the observations of calendar month d
month_positions(series, d) == {i \in 1..Len(series) : series[i].date = d}

\* the position that comes last by position alone
last_by_position(series, d) ==
    CHOOSE i \in month_positions(series, d) :
        \A j \in month_positions(series, d) : j <= i
\* resample() sorts the rows by date with a stable sort before it groups
\* them, so the last row of a month is the one of the greatest day, and of
\* several rows of that day the one that came last
last_position(series, d) ==
    CHOOSE i \in month_positions(series, d) :
        \A j \in month_positions(series, d) :
            \/ series[j].day < series[i].day
            \/ series[j].day = series[i].day /\ j <= i

\* .last(): one bin per month from the first to the last month of the
\* series, NaN for a month without rows
resample_last(series) ==
    LET months == {series[i].date : i \in 1..Len(series)}
        lo == CHOOSE d \in months : \A e \in months : d <= e
        hi == CHOOSE d \in months : \A e \in months : e <= d
    IN  IF series = <<>> THEN <<>>
        ELSE [k \in 1..(hi - lo + 1) |->
                LET d == lo + k - 1
                IN  [date  |-> d,
                     price |-> IF month_positions(series, d) = {} THEN NaN
                               ELSE Num(series[last_position(series, d)].price)]]

\* .dropna()
dropna_bins(bins) == SelectSeq(bins, LAMBDA b : ~IsNaN(b.price))

\* the monthly series of a close series
resample_monthly(series) ==
    LET kept == dropna_bins(resample_last(series))
    IN  [k \in 1..Len(kept) |-> [date |-> kept[k].date, price |-> kept[k].price.val]]

\* the close series drawn: up to MaxObservations rows, in any order, over
\* three months and two days, dates may repeat
ResampleMonths == {DateOf(BaseYear, 12), DateOf(BaseYear + 1, 1), DateOf(BaseYear + 1, 2)}
ResampleDays == {14, 15}
Observations == [date : ResampleMonths, day : ResampleDays, price : PriceVals]
CloseSeries == UNION {[1..n -> Observations] : n \in 0..MaxObservations}

(* ----------------------- _extract_close_series ------------------------ *)
\* A provider table is [kind, columns, rows, index, data]: kind "flat" has
\* plain column labels, kind "multi" a two-level MultiIndex (labels
\* <<l0, l1>>), kind "multi1" a MultiIndex of a single level (labels
\* <<l0>>); index[r] is the day [date, day] of row r and data[c][r] the
\* cell of column position c in row r, numeric or not. NoneFrame is the
\* provider's None.
NoneFrame ==
    [kind |-> "none", columns |-> <<>>, rows |-> 0, index |-> <<>>, data |-> <<>>]

\* df.empty: no rows or no columns
IsEmptyFrame(f) == f.rows = 0 \/ f.columns = <<>>

None == [absent |-> TRUE]
\* a series: the column position it was taken from and its entries
Series(c, entries) == [absent |-> FALSE, column |-> c, entries |-> entries]

\* the first of a non-empty set of column positions
First(ps) == CHOOSE i \in ps : \A j \in ps : i <= j

\* the outcome of the column selection inside try: a column position, no
\* column (return None) or an exception
Selected(c) == [raised |-> FALSE, found |-> TRUE, column |-> c]
NotFound == [raised |-> FALSE, found |-> FALSE]
Raises(e) == [raised |-> TRUE, exc |-> e]

\* the MultiIndex branch: Formato B, Formato C, then "Close" in level 1
select_multi(f, ticker) ==
    LET pos == 1..Len(f.columns)
        close0 == {i \in pos : f.columns[i][1] = "Close"}
        ticker0 == {i \in pos : f.columns[i][1] = ticker}
        close1 == {i \in pos : f.columns[i][2] = "Close"}
    IN  IF close0 # {}
        THEN IF \E i \in close0 : f.columns[i][2] = ticker
             THEN Selected(First({i \in close0 : f.columns[i][2] = ticker}))
             ELSE Selected(First(close0))
        ELSE IF ticker0 # {}
        THEN IF \E i \in ticker0 : f.columns[i][2] = "Close"
             THEN Selected(First({i \in ticker0 : f.columns[i][2] = "Close"}))
             ELSE Selected(First(ticker0))
        ELSE IF close1 # {} THEN Selected(First(close1))
        ELSE NotFound

\* Formato A: "Close", else a column named as the ticker
select_flat(f, ticker) ==
    LET pos == 1..Len(f.columns)
    IN  IF \E i \in pos : f.columns[i] = "Close"
        THEN Selected(First({i \in pos : f.columns[i] = "Close"}))
        ELSE IF \E i \in pos : f.columns[i] = ticker
        THEN Selected(First({i \in pos : f.columns[i] = ticker}))
        ELSE NotFound

\* get_level_values(1) of a MultiIndex of one level raises IndexError
select_column(f, ticker) ==
    CASE f.kind = "multi1" -> Raises("IndexError")
      [] f.kind = "multi" -> select_multi(f, ticker)
      [] f.kind = "flat" -> select_flat(f, ticker)

\* pd.to_numeric(series, errors="coerce").dropna(): the numeric cells of
\* the column, each with its row
RECURSIVE to_numeric_dropna(_, _)
to_numeric_dropna(cells, r) ==
    IF r > Len(cells) THEN <<>>
    ELSE (IF cells[r].num THEN <<[row |-> r, val |-> cells[r].val]>> ELSE <<>>)
            \o to_numeric_dropna(cells, r + 1)

\* the body of try
try_extract(f, ticker) ==
    LET sel == select_column(f, ticker)
    IN  IF sel.raised THEN sel
        ELSE IF ~sel.found THEN [raised |-> FALSE, value |-> None]
        ELSE LET series == to_numeric_dropna(f.data[sel.column], 1)
             IN  [raised |-> FALSE,
                  value  |-> IF Len(series) > 0 THEN Series(sel.column, series)
                             ELSE None]

\* the exception left to the caller
extract_uncaught(f, ticker) ==
    IF f.kind = "none" \/ IsEmptyFrame(f) THEN [fault |-> "none", value |-> None]
    ELSE LET r == try_extract(f, ticker)
         IN  IF r.raised THEN [fault |-> r.exc, value |-> None]
             ELSE [fault |-> "none", value |-> r.value]
\* the result of the call: except Exception returns None
extract_close_series(f, ticker) ==
    IF f.kind = "none" \/ IsEmptyFrame(f) THEN [fault |-> "none", value |-> None]
    ELSE LET r == try_extract(f, ticker)
         IN  IF r.raised THEN [fault |-> "none", value |-> None]
             ELSE [fault |-> "none", value |-> r.value]

\* the provider tables drawn: up to two columns and two rows
FlatLabels == {"Close", "Open", "AAPL", "MSFT"}
MultiLabels == {<<"Close", "AAPL">>, <<"Close", "MSFT">>, <<"Open", "AAPL">>,
                <<"AAPL", "Close">>, <<"AAPL", "Open">>,
                <<"MSFT", "Close">>, <<"MSFT", "Open">>}
Cells == {[num |-> TRUE, val |-> 2], [num |-> TRUE, val |-> 5], [num |-> FALSE]}
ColumnCounts == 0..2
FramesOfShape(kind, labels, k, n) ==
    {[kind |-> kind, columns |-> cols, rows |-> n,
      index |-> [r \in 1..n |-> [date |-> DateOf(BaseYear, 1), day |-> r]],
      data |-> data] :
        cols \in [1..k -> labels], data \in [1..k -> [1..n -> Cells]]}
RowCounts == 0..MaxRows
OneLevelLabels == {<<"Close">>, <<"AAPL">>}
\* the tickers asked for: one that labels columns and one that does not
ExtractTickers == {"AAPL", "TSLA"}

(* --------------------------- download_data ---------------------------- *)
\* len(close) < 50 and len(monthly) > 10
MinObservations == 50
MonthsThreshold == 10

\* The provider's answer for one ticker is an exception of yf.download,
\* None, an empty table, or a table of daily prices given by its shape
\* [kind "table", format, start, months, n, gap]: n rows in date order
\* spread evenly over `months` calendar months from `start`, the months
\* from the sixth on shifted by one when gap.
shape_month(o, r) == ((r * o.months) - 1) \div o.n
shape_date(o, r) ==
    o.start + shape_month(o, r) + (IF o.gap /\ shape_month(o, r) >= 5 THEN 1 ELSE 0)
shape_day(o, r) == r - ((shape_month(o, r) * o.n) \div o.months)
shape_price(r) == CASE r % 3 = 0 -> 2 [] r % 3 = 1 -> 4 [] r % 3 = 2 -> 5

\* yf.download(ticker, ...) for a table shape: Open and Close columns in
\* Formato A or Formato B
provider_frame(o, ticker) ==
    [kind    |-> o.format,
     columns |-> IF o.format = "flat" THEN <<"Open", "Close">>
                 ELSE <<<<"Open", ticker>>, <<"Close", ticker>>>>,
     rows    |-> o.n,
     index   |-> [r \in 1..o.n |-> [date |-> shape_date(o, r), day |-> shape_day(o, r)]],
     data    |-> <<[r \in 1..o.n |-> [num |-> TRUE, val |-> shape_price(r + 1)]],
                   [r \in 1..o.n |-> [num |-> TRUE, val |-> shape_price(r)]]>>]

yf_download(o, ticker) ==
    CASE o.kind = "none" -> NoneFrame
      [] o.kind = "empty" ->
            [kind |-> "flat", columns |-> <<>>, rows |-> 0, index |-> <<>>, data |-> <<>>]
      [] o.kind = "table" -> provider_frame(o, ticker)

\* the close series with the dates of its rows
close_observations(f, value) ==
    [k \in 1..Len(value.entries) |->
        [date  |-> f.index[value.entries[k].row].date,
         day   |-> f.index[value.entries[k].row].day,
         price |-> value.entries[k].val]]

\* the dict started anew at every assignment
dict_set_alone(items, ticker, monthly_series) ==
    <<[ticker |-> ticker, monthly |-> monthly_series]>>
\* all_data[ticker] = monthly on a dict kept as the sequence of its items
dict_set(items, ticker, monthly_series) ==
    IF \E k \in 1..Len(items) : items[k].ticker = ticker
    THEN [k \in 1..Len(items) |->
            IF items[k].ticker = ticker
            THEN [ticker |-> ticker, monthly |-> monthly_series] ELSE items[k]]
    ELSE Append(items, [ticker |-> ticker, monthly |-> monthly_series])

\* what one turn of the loop does with the provider's answer o: the
\* entry appended to failed, the series stored, or neither
Failed(entry) == [failed |-> <<entry>>, stored |-> <<>>]
Stored(m) == [failed |-> <<>>, stored |-> <<m>>]
Skipped == [failed |-> <<>>, stored |-> <<>>]

loop_body(o, ticker) ==
    IF o.kind = "raise" THEN Failed([ticker |-> ticker, exc |-> "e"])
    ELSE LET frame == yf_download(o, ticker)
         IN  IF frame.kind = "none" \/ IsEmptyFrame(frame)
             THEN Failed([ticker |-> ticker, exc |-> ""])
             ELSE LET close_series == extract_close_series(frame, ticker).value
                  IN  IF close_series = None
                         \/ Len(close_series.entries) < MinObservations
                      THEN Failed([ticker |-> ticker, exc |-> ""])
                      ELSE LET m == resample_monthly(
                                       close_observations(frame, close_series))
                           IN  IF Len(m) > MonthsThreshold THEN Stored(m) ELSE Skipped

\* a monthly series as the column of a table
SeriesColumn(m) ==
    [d \in {m[k].date : k \in 1..Len(m)} |->
        m[CHOOSE k \in 1..Len(m) : m[k].date = d].price]

\* result.dropna(axis=1, how="all")
dropna_columns(t) ==
    LET kept == SelectSeq(t.columns, LAMBDA c : DOMAIN t.data[c] # {})
    IN  [columns |-> kept,
         index   |-> t.index,
         data    |-> [c \in Range(kept) |-> t.data[c]]]

\* pd.DataFrame(all_data) without its empty columns
build_result(items) ==
    dropna_columns(
        DataFrame([k \in 1..Len(items) |-> items[k].ticker],
                  [t \in {items[k].ticker : k \in 1..Len(items)} |->
                      SeriesColumn(items[CHOOSE k \in 1..Len(items) :
                                             items[k].ticker = t].monthly)]))

\* all_data and failed after one more turn of the loop, for ticker, whose
\* body gave done
loop_turn(before, ticker, done) ==
    [all_data |-> IF done.stored = <<>> THEN before.all_data
                  ELSE dict_set(before.all_data, ticker, done.stored[1]),
     failed   |-> before.failed \o done.failed]

\* all_data and failed after the first n turns of the loop
RECURSIVE loop_state(_, _, _)
loop_state(req, prov, n) ==
    IF n = 0 THEN [all_data |-> <<>>, failed |-> <<>>]
    ELSE loop_turn(loop_state(req, prov, n - 1), req[n], loop_body(prov[n], req[n]))

\* what follows the loop: the table returned, the list failed, and whether
\* the sidebar warning and the error were shown
after_loop(after) ==
    [result     |-> IF after.all_data = <<>> THEN EmptyTable
                    ELSE build_result(after.all_data),
     failed     |-> after.failed,
     st_warning |-> after.failed # <<>>,
     st_error   |-> after.all_data = <<>>]

\* one call of download_data(req) when the provider answers prov
download_data(req, prov) == after_loop(loop_state(req, prov, Len(req)))

\* the provider's answers drawn
DownloadStart == DateOf(BaseYear, 1)
TableShapes ==
    [kind : {"table"}, format : {"flat", "multi"},
     start : {DownloadStart, DownloadStart + 1},
     months : {MonthsThreshold, MonthsThreshold + 1},
     n : {MinObservations - 1, MinObservations}, gap : BOOLEAN]
NoTable == {[kind |-> "raise"], [kind |-> "none"], [kind |-> "empty"]}
TickerRequests == {<<"AAPL">>, <<"AAPL", "MSFT">>, <<"MSFT", "AAPL">>}

(* ------------------ the page script and the session ------------------ *)
\* st.session_state is a function from the keys written so far to values.
SessionKeys == {"prices", "returns", "stats", "available_tickers"}

\* the download on every run
needs_load_always(sess, btn) == TRUE
\* "prices" not in st.session_state or load_btn
needs_load(sess, btn) == "prices" \notin DOMAIN sess \/ btn

\* a table never taken for empty
is_empty_never(t) == FALSE
\* DataFrame.empty: no column or no row
is_empty(t) == t.columns = <<>> \/ t.index = {}

\* the write of "prices" alone
session_write_prices_only(sess, p, r, s) ==
    [k \in DOMAIN sess \cup {"prices"} |-> IF k = "prices" THEN p ELSE sess[k]]
\* the four assignments to st.session_state
session_write(sess, p, r, s) ==
    [k \in DOMAIN sess \cup SessionKeys |->
        CASE k = "prices" -> p
          [] k = "returns" -> r
          [] k = "stats" -> s
          [] k = "available_tickers" -> p.columns
          [] OTHER -> sess[k]]

\* st.session_state.get(key, default)
session_get(sess, key, default) == IF key \in DOMAIN sess THEN sess[key] ELSE default

\* st.selectbox(label, options): one of the options, None when there is none
selectbox(options) == IF options = <<>> THEN {"None"} ELSE Range(options)

\* what the sidebar and the ticker file can hold, and what the provider
\* answers for one ticker: an exception, or eleven months of prices in
\* one of two layouts and windows
SessionRequests == {<<>>, <<"AAPL">>, <<"AAPL", "MSFT">>}
YearsBack == {5, 18}
SessionAnswers ==
    {[kind |-> "raise"],
     [kind |-> "table", format |-> "multi", start |-> DownloadStart,
      months |-> MonthsThreshold + 1, n |-> MinObservations, gap |-> FALSE],
     [kind |-> "table", format |-> "flat", start |-> DownloadStart + 1,
      months |-> MonthsThreshold + 1, n |-> MinObservations, gap |-> TRUE]}
\* choices of the correlation tab: month of analysis, minimum common years
SessionMonths == {3, 12}
SessionOverlaps == {3, 8}

(* ------------- the parts of the state a machine leaves idle ----------- *)
StatsIdle ==
    /\ stats = <<>>
    /\ available_tickers = <<>>
    /\ selected_sectors = <<>>
    /\ metric = "pct_sube"
    /\ sector_rows = Returned(<<>>)
SectorIdle == tickers = <<>> /\ sectors_data = <<>>
ResampleIdle == close = <<>> /\ monthly = <<>>
ExtractIdle == df = <<>> /\ wanted = "" /\ extracted = <<>>
\* st.session_state without keys
NoKeys == [k \in {} |-> {}]
FrameIdle == first_call = <<>> /\ again = <<>> /\ tie_break = {}
SessionIdle ==
    /\ session = NoKeys
    /\ load_btn = FALSE
    /\ years_back = 18
    /\ loaded_from = <<>>
DownloadIdle ==
    /\ requested = <<>>
    /\ provider = <<>>
    /\ next_ticker = 1
    /\ all_data = <<>>
    /\ failed = <<>>
    /\ st_warning = FALSE
    /\ st_error = FALSE

(* ------------------- find_correlations as a machine ------------------- *)
InitCorr ==
    /\ \/ returns \in NarrowReturnTables
       \/ returns \in WideReturnTables
    /\ prices = EmptyTable
    /\ other_prices = EmptyTable
    /\ other_returns = EmptyTable
    /\ ref_ticker = "A"
    /\ ref_month = 1
    /\ min_overlap = 0
    /\ corr = Returned(<<>>)
    /\ pc = "input"
    /\ StatsIdle /\ SectorIdle /\ ResampleIdle /\ ExtractIdle /\ DownloadIdle
    /\ FrameIdle /\ SessionIdle

FindCorrelations ==
    /\ pc = "input"
    /\ \E ref \in RefTickers, m \in RefMonths, min \in 0..MaxOverlap :
         /\ ref_ticker' = ref
         /\ ref_month' = m
         /\ min_overlap' = min
         /\ corr' \in find_correlations(returns, ref, m, min)
    /\ pc' = "done"
    /\ UNCHANGED <<prices, returns, other_prices, other_returns>>
    /\ UNCHANGED <<statsVars, sectorVars, resampleVars, extractVars,
                   frameVars, sessionVars, downloadVars>>

NextCorr == FindCorrelations

SpecCorr == InitCorr /\ [][NextCorr]_vars

(* ---------------- compute_monthly_returns as a machine ---------------- *)
Init ==
    /\ prices \in PriceTables
    /\ returns = EmptyTable
    /\ other_prices = EmptyTable
    /\ other_returns = EmptyTable
    /\ ref_ticker = "A"
    /\ ref_month = 1
    /\ min_overlap = 0
    /\ corr = Returned(<<>>)
    /\ pc = "input"
    /\ StatsIdle /\ SectorIdle /\ ResampleIdle /\ ExtractIdle /\ DownloadIdle
    /\ FrameIdle /\ SessionIdle

ComputeReturns ==
    /\ pc = "input"
    /\ returns' = compute_monthly_returns(prices)
    /\ pc' = "returns"
    /\ UNCHANGED <<prices, other_prices, other_returns,
                   ref_ticker, ref_month, min_overlap, corr>>
    /\ UNCHANGED <<statsVars, sectorVars, resampleVars, extractVars,
                   frameVars, sessionVars, downloadVars>>

\* a second call, on a table that has the same column for one instrument
ComputeOtherReturns ==
    /\ pc = "returns"
    /\ \E q \in PriceTables :
         /\ \E t \in Range(prices.columns) \cap Range(q.columns) :
               q.data[t] = prices.data[t]
         /\ other_prices' = q
         /\ other_returns' = compute_monthly_returns(q)
    /\ pc' = "compared"
    /\ UNCHANGED <<prices, returns, ref_ticker, ref_month, min_overlap, corr>>
    /\ UNCHANGED <<statsVars, sectorVars, resampleVars, extractVars,
                   frameVars, sessionVars, downloadVars>>

Next == ComputeReturns \/ ComputeOtherReturns

Spec == Init /\ [][Next]_vars

(* -------- get_monthly_stats and the sector tab as a machine ----------- *)
CoreIdle ==
    /\ prices = EmptyTable
    /\ returns = EmptyTable
    /\ other_prices = EmptyTable
    /\ other_returns = EmptyTable
    /\ ref_ticker = "A"
    /\ ref_month = 1
    /\ min_overlap = 0
    /\ corr = Returned(<<>>)

InitStats ==
    /\ \/ returns \in StatsReturnTables
       \/ returns \in PairReturnTables
       \/ returns \in SectorReturnTables
       \/ returns \in AirlineReturnTables
       \/ returns = EmptyTable
    /\ prices = EmptyTable
    /\ other_prices = EmptyTable
    /\ other_returns = EmptyTable
    /\ ref_ticker = "A"
    /\ ref_month = 1
    /\ min_overlap = 0
    /\ corr = Returned(<<>>)
    /\ pc = "returns loaded"
    /\ StatsIdle /\ SectorIdle /\ ResampleIdle /\ ExtractIdle /\ DownloadIdle
    /\ FrameIdle /\ SessionIdle

\* stats = get_monthly_stats(returns); available_tickers = list(prices.columns)
GetMonthlyStats ==
    /\ pc = "returns loaded"
    /\ stats' = get_monthly_stats(returns)
    /\ available_tickers' = returns.columns
    /\ pc' = "stats"
    /\ UNCHANGED <<coreVars, selected_sectors, metric, sector_rows>>
    /\ UNCHANGED <<sectorVars, resampleVars, extractVars,
                   frameVars, sessionVars, downloadVars>>

\* the sector tab draws the monthly comparison of the selected sectors
SectorComparison ==
    /\ pc = "stats"
    /\ \E sel \in SectorSelections, m \in Metrics :
         /\ selected_sectors' = sel
         /\ metric' = m
         /\ sector_rows' = chart_sector_monthly_comparison(stats, available_tickers, sel, m)
    /\ pc' = "sectors drawn"
    /\ UNCHANGED <<coreVars, stats, available_tickers>>
    /\ UNCHANGED <<sectorVars, resampleVars, extractVars,
                   frameVars, sessionVars, downloadVars>>

NextStats == GetMonthlyStats \/ SectorComparison

SpecStats == InitStats /\ [][NextStats]_vars

(* ----------------- get_available_sectors as a machine ------------------ *)
\* the identifiers of the lists: four of SECTOR_MAP and one that is not
SectorTickers == {"AAL", "DAL", "AAPL", "C", "ZZZ"}
TickerLists == UNION {[1..n -> SectorTickers] : n \in 0..MaxTickers}

InitSectors ==
    /\ tickers \in TickerLists
    /\ sectors_data = <<>>
    /\ CoreIdle
    /\ pc = "tickers"
    /\ StatsIdle /\ ResampleIdle /\ ExtractIdle /\ DownloadIdle
    /\ FrameIdle /\ SessionIdle

GetAvailableSectors ==
    /\ pc = "tickers"
    /\ sectors_data' = get_available_sectors(tickers)
    /\ pc' = "sectors"
    /\ UNCHANGED <<coreVars, statsVars, tickers, resampleVars, extractVars,
                   frameVars, sessionVars, downloadVars>>

NextSectors == GetAvailableSectors

SpecSectors == InitSectors /\ [][NextSectors]_vars

(* -------------------- the resampling as a machine --------------------- *)
InitResample ==
    /\ close \in CloseSeries
    /\ monthly = <<>>
    /\ CoreIdle
    /\ pc = "close"
    /\ StatsIdle /\ SectorIdle /\ ExtractIdle /\ DownloadIdle
    /\ FrameIdle /\ SessionIdle

Resample ==
    /\ pc = "close"
    /\ monthly' = resample_monthly(close)
    /\ pc' = "monthly"
    /\ UNCHANGED <<coreVars, statsVars, sectorVars, close, extractVars,
                   frameVars, sessionVars, downloadVars>>

NextResample == Resample

SpecResample == InitResample /\ [][NextResample]_vars

(* ----------------- _extract_close_series as a machine ------------------ *)
InitExtract ==
    /\ \/ df = NoneFrame
       \/ \E k \in ColumnCounts, n \in RowCounts :
             df \in FramesOfShape("flat", FlatLabels, k, n)
       \/ \E k \in ColumnCounts, n \in RowCounts :
             df \in FramesOfShape("multi", MultiLabels, k, n)
       \/ \E k \in ColumnCounts, n \in RowCounts :
             df \in FramesOfShape("multi1", OneLevelLabels, k, n)
    /\ wanted \in ExtractTickers
    /\ extracted = <<>>
    /\ CoreIdle
    /\ pc = "frame"
    /\ StatsIdle /\ SectorIdle /\ ResampleIdle /\ DownloadIdle
    /\ FrameIdle /\ SessionIdle

ExtractCloseSeries ==
    /\ pc = "frame"
    /\ extracted' = extract_close_series(df, wanted)
    /\ pc' = "extracted"
    /\ UNCHANGED <<coreVars, statsVars, sectorVars, resampleVars, df, wanted,
                   frameVars, sessionVars, downloadVars>>

NextExtract == ExtractCloseSeries

SpecExtract == InitExtract /\ [][NextExtract]_vars

(* ----------------------- download_data as a machine -------------------- *)
InitDownload ==
    /\ requested \in TickerRequests
    /\ provider \in [1..Len(requested) -> TableShapes \cup NoTable]
    /\ next_ticker = 1
    /\ all_data = <<>>
    /\ failed = <<>>
    /\ st_warning = FALSE
    /\ st_error = FALSE
    /\ CoreIdle
    /\ pc = "downloading"
    /\ StatsIdle /\ SectorIdle /\ ResampleIdle /\ ExtractIdle
    /\ FrameIdle /\ SessionIdle

\* one turn of the loop over tickers
DownloadTicker ==
    /\ pc = "downloading"
    /\ next_ticker <= Len(requested)
    /\ LET ticker == requested[next_ticker]
           done == loop_body(provider[next_ticker], ticker)
       IN  /\ failed' = failed \o done.failed
           /\ all_data' = IF done.stored = <<>> THEN all_data
                          ELSE dict_set(all_data, ticker, done.stored[1])
    /\ next_ticker' = next_ticker + 1
    /\ UNCHANGED <<coreVars, pc, statsVars, sectorVars, resampleVars, extractVars,
                   frameVars, sessionVars,
                   requested, provider, st_warning, st_error>>

\* after the loop: the sidebar warning when a ticker failed, then the
\* error and the empty table, or the aligned table
BuildResult ==
    /\ pc = "downloading"
    /\ next_ticker > Len(requested)
    /\ st_warning' = (failed # <<>>)
    /\ IF all_data = <<>>
       THEN st_error' = TRUE /\ prices' = EmptyTable
       ELSE st_error' = FALSE /\ prices' = build_result(all_data)
    /\ pc' = "downloaded"
    /\ UNCHANGED <<returns, other_prices, other_returns, ref_ticker, ref_month,
                   min_overlap, corr>>
    /\ UNCHANGED <<statsVars, sectorVars, resampleVars, extractVars,
                   frameVars, sessionVars,
                   requested, provider, next_ticker, all_data, failed>>

NextDownload == DownloadTicker \/ BuildResult

SpecDownload == InitDownload /\ [][NextDownload]_vars

(* ------------- each function called twice on the same table ----------- *)
\* pc names the call that comes next. The second call is made on the
\* caller's table as the first call left it.
InitFrame ==
    /\ \/ /\ prices \in FramePriceTables
          /\ returns = EmptyTable
          /\ pc = "call returns"
       \/ /\ prices = EmptyTable
          /\ returns \in FrameReturnTables
          /\ pc = "call stats"
    /\ other_prices = EmptyTable
    /\ other_returns = EmptyTable
    /\ ref_ticker = "A"
    /\ ref_month = 1
    /\ min_overlap = 0
    /\ corr = Returned(<<>>)
    /\ StatsIdle /\ SectorIdle /\ ResampleIdle /\ ExtractIdle /\ DownloadIdle
    /\ FrameIdle /\ SessionIdle

\* what is recorded of a call made with the table given
Recorded(given, call) ==
    [given |-> given, input |-> call.input, output |-> call.output]

CallReturns ==
    /\ pc = "call returns"
    /\ LET call == compute_monthly_returns_call(prices)
       IN  /\ first_call' = Recorded(prices, call)
           /\ prices' = call.input
           /\ returns' = call.output
    /\ pc' = "call returns again"
    /\ UNCHANGED <<other_prices, other_returns, ref_ticker, ref_month, min_overlap, corr>>
    /\ UNCHANGED <<statsVars, sectorVars, resampleVars, extractVars, downloadVars,
                   sessionVars, again, tie_break>>

CallReturnsAgain ==
    /\ pc = "call returns again"
    /\ LET call == compute_monthly_returns_call(prices)
       IN  /\ again' = Recorded(prices, call)
           /\ prices' = call.input
           /\ returns' = call.output
    /\ pc' = "call stats"
    /\ UNCHANGED <<other_prices, other_returns, ref_ticker, ref_month, min_overlap, corr>>
    /\ UNCHANGED <<statsVars, sectorVars, resampleVars, extractVars, downloadVars,
                   sessionVars, first_call, tie_break>>

CallStats ==
    /\ pc = "call stats"
    /\ LET call == get_monthly_stats_call(returns)
       IN  /\ first_call' = Recorded(returns, call)
           /\ returns' = call.input
           /\ stats' = call.output
    /\ again' = <<>>
    /\ pc' = "call stats again"
    /\ UNCHANGED <<prices, other_prices, other_returns, ref_ticker, ref_month,
                   min_overlap, corr>>
    /\ UNCHANGED <<available_tickers, selected_sectors, metric, sector_rows>>
    /\ UNCHANGED <<sectorVars, resampleVars, extractVars, downloadVars,
                   sessionVars, tie_break>>

CallStatsAgain ==
    /\ pc = "call stats again"
    /\ LET call == get_monthly_stats_call(returns)
       IN  /\ again' = Recorded(returns, call)
           /\ returns' = call.input
           /\ stats' = call.output
    /\ pc' = "call corr"
    /\ UNCHANGED <<prices, other_prices, other_returns, ref_ticker, ref_month,
                   min_overlap, corr>>
    /\ UNCHANGED <<available_tickers, selected_sectors, metric, sector_rows>>
    /\ UNCHANGED <<sectorVars, resampleVars, extractVars, downloadVars,
                   sessionVars, first_call, tie_break>>

CallCorr ==
    /\ pc = "call corr"
    /\ \E ref \in RefTickers, m \in FrameMonths, min \in FrameOverlaps :
         \E call \in find_correlations_call(returns, ref, m, min, tie_break) :
            /\ ref_ticker' = ref
            /\ ref_month' = m
            /\ min_overlap' = min
            /\ first_call' = Recorded(returns, call)
            /\ returns' = call.input
            /\ corr' = call.output
            /\ tie_break' = tie_break \cup
                   {[rows   |-> rows_to_sort(returns, ref, m, min),
                     sorted |-> call.output.rows]}
    /\ again' = <<>>
    /\ pc' = "call corr again"
    /\ UNCHANGED <<prices, other_prices, other_returns>>
    /\ UNCHANGED <<statsVars, sectorVars, resampleVars, extractVars, downloadVars,
                   sessionVars>>

CallCorrAgain ==
    /\ pc = "call corr again"
    /\ \E call \in find_correlations_call(returns, ref_ticker, ref_month, min_overlap,
                                          tie_break) :
            /\ again' = Recorded(returns, call)
            /\ returns' = call.input
            /\ corr' = call.output
    /\ pc' = "called"
    /\ UNCHANGED <<prices, other_prices, other_returns, ref_ticker, ref_month,
                   min_overlap>>
    /\ UNCHANGED <<statsVars, sectorVars, resampleVars, extractVars, downloadVars,
                   sessionVars, first_call, tie_break>>

NextFrame ==
    \/ CallReturns
    \/ CallReturnsAgain
    \/ CallStats
    \/ CallStatsAgain
    \/ CallCorr
    \/ CallCorrAgain

SpecFrame == InitFrame /\ [][NextFrame]_vars

(* ------------------ the page script run after run --------------------- *)
\* pc is "script" when a run of the script is due, "stopped" after a run
\* ended by st.stop(), "rendered" after a run that reached the tabs. The
\* script's own names (prices, returns, stats, ...) start afresh at every
\* run; st.session_state is kept from run to run. loaded_from records the
\* ticker list and the years of the load that wrote the session.
InitSession ==
    /\ requested \in SessionRequests
    /\ provider = <<>>
    /\ next_ticker = 1
    /\ all_data = <<>>
    /\ failed = <<>>
    /\ st_warning = FALSE
    /\ st_error = FALSE
    /\ CoreIdle
    /\ pc = "script"
    /\ StatsIdle /\ SectorIdle /\ ResampleIdle /\ ExtractIdle
    /\ FrameIdle /\ SessionIdle

\* st.stop() inside the load block: the names bound so far
StopInLoad(p) ==
    /\ prices' = p
    /\ returns' = EmptyTable
    /\ stats' = <<>>
    /\ available_tickers' = <<>>
    /\ ref_ticker' = "A"
    /\ ref_month' = 1
    /\ min_overlap' = 0
    /\ corr' = Returned(<<>>)
    /\ pc' = "stopped"

\* from the reads of st.session_state to the correlation tab
Render(sess) ==
    LET p == session_get(sess, "prices", EmptyTable)
        r == session_get(sess, "returns", EmptyTable)
        s == session_get(sess, "stats", <<>>)
        a == session_get(sess, "available_tickers", <<>>)
    IN  /\ prices' = p
        /\ returns' = r
        /\ stats' = s
        /\ available_tickers' = a
        /\ IF is_empty(p)
           THEN /\ ref_ticker' = "A"
                /\ ref_month' = 1
                /\ min_overlap' = 0
                /\ corr' = Returned(<<>>)
                /\ pc' = "stopped"
           ELSE /\ \E ref \in selectbox(a), m \in SessionMonths, min \in SessionOverlaps :
                     /\ ref_ticker' = ref
                     /\ ref_month' = m
                     /\ min_overlap' = min
                     /\ corr' \in find_correlations(r, ref, m, min)
                /\ pc' = "rendered"

\* one run of the script, from the load block on
RunScript ==
    /\ pc = "script"
    /\ IF needs_load(session, load_btn)
       THEN \E prov \in [1..Len(requested) -> SessionAnswers] :
              \E after \in {loop_state(requested, prov, Len(requested))} :
              \E dl \in {after_loop(after)} :
                  /\ provider' = prov
                  /\ next_ticker' = Len(requested) + 1
                  /\ all_data' = after.all_data
                  /\ failed' = dl.failed
                  /\ st_warning' = dl.st_warning
                  /\ IF is_empty(dl.result)
                     THEN /\ st_error' = TRUE
                          /\ UNCHANGED <<session, loaded_from>>
                          /\ StopInLoad(dl.result)
                     ELSE LET r    == compute_monthly_returns(dl.result)
                              s    == get_monthly_stats(r)
                              sess == session_write(session, dl.result, r, s)
                          IN  /\ st_error' = dl.st_error
                              /\ session' = sess
                              /\ loaded_from' = <<requested, years_back>>
                              /\ Render(sess)
       ELSE /\ UNCHANGED <<provider, next_ticker, all_data, failed, st_warning,
                           st_error, session, loaded_from>>
            /\ Render(session)
    /\ UNCHANGED <<other_prices, other_returns, selected_sectors, metric, sector_rows>>
    /\ UNCHANGED <<sectorVars, resampleVars, extractVars, frameVars,
                   requested, load_btn, years_back>>

\* the user changes an input or presses the button: the script runs anew
Rerun ==
    /\ pc \in {"stopped", "rendered"}
    /\ load_btn' \in BOOLEAN
    /\ requested' \in SessionRequests
    /\ years_back' \in YearsBack
    /\ prices' = EmptyTable
    /\ returns' = EmptyTable
    /\ stats' = <<>>
    /\ available_tickers' = <<>>
    /\ ref_ticker' = "A"
    /\ ref_month' = 1
    /\ min_overlap' = 0
    /\ corr' = Returned(<<>>)
    /\ provider' = <<>>
    /\ next_ticker' = 1
    /\ all_data' = <<>>
    /\ failed' = <<>>
    /\ st_warning' = FALSE
    /\ st_error' = FALSE
    /\ pc' = "script"
    /\ UNCHANGED <<other_prices, other_returns, selected_sectors, metric, sector_rows>>
    /\ UNCHANGED <<sectorVars, resampleVars, extractVars, frameVars,
                   session, loaded_from>>

NextSession == RunScript \/ Rerun

SpecSession == InitSession /\ [][NextSession]_vars

(* ====================================================================== *)
(*                  find_correlations: the claims                         *)
(* ====================================================================== *)
\* a query has returned a table (no exception)
Answered == pc = "done" /\ corr.fault = "none"

RowsOf(t, periodo) ==
    {i \in 1..Len(corr.rows) : corr.rows[i].ticker = t /\ corr.rows[i].periodo = periodo}

\* the years of the drawn table
TableYears == {Year(d) : d \in returns.index} \cup {Year(d) + 1 : d \in returns.index}

Present(t, d) == d \in DOMAIN returns.data[t]

\* the years in which the reference fell in ref_month
DownYears ==
    {y \in TableYears :
        /\ Present(ref_ticker, DateOf(y, ref_month))
        /\ returns.data[ref_ticker][DateOf(y, ref_month)] < 0}

\* the observation of the candidate matched with down-year y, per period
SameDate(y) == DateOf(y, ref_month)
NextDate(y) ==
    IF ref_month = 12 THEN DateOf(y + 1, 1) ELSE DateOf(y, (ref_month % 12) + 1)

CommonSame(t) == {y \in DownYears : Present(t, SameDate(y))}
CommonNext(t) == {y \in DownYears : Present(t, NextDate(y))}

RECURSIVE SumYears(_, _, _)
SumYears(t, ds, ys) ==
    IF ys = {} THEN 0
    ELSE LET y == CHOOSE z \in ys : TRUE
         IN  returns.data[t][ds[y]] + SumYears(t, ds, ys \ {y})

Abs(x) == IF x < 0 THEN -x ELSE x

\* x is the quotient num / n given to 1/scale of a unit, NaN when n = 0
IsQuotient(x, num, n, scale) ==
    IF n = 0 THEN IsNaN(x)
    ELSE ~IsNaN(x) /\ 2 * Abs(x.val * n - scale * num) <= n

\* row is the record of candidate t over the years ys, observed at ds[y]
RowMatches(row, t, ys, ds) ==
    LET ups == {y \in ys : returns.data[t][ds[y]] > 0}
    IN  /\ row.n_anos = Cardinality(ys)
        /\ row.subio_cuando_ref_bajo = Cardinality(ups)
        /\ IsQuotient(row.pct_subio, 100 * Cardinality(ups), Cardinality(ys), 10)
        /\ IsQuotient(row.retorno_prom, SumYears(t, ds, ys), Cardinality(ys), 100)

\* C1: every "Mismo mes" row of a result belongs to a candidate other than
\* the reference and has n_anos = |commonYears|, subio_cuando_ref_bajo = the
\* number of common years in which the candidate's ref_month return is > 0,
\* pct_subio = subio / n_anos * 100 (to one decimal) and retorno_prom = the
\* mean of the candidate's ref_month returns over exactly the common years
\* (to two decimals); with no common year both quotients are NaN.
C1_SameMonthRecord ==
    Answered =>
        \A i \in 1..Len(corr.rows) :
            corr.rows[i].periodo = "Mismo mes" =>
                /\ corr.rows[i].ticker # ref_ticker
                /\ corr.rows[i].mes = ref_month
                /\ RowMatches(corr.rows[i], corr.rows[i].ticker,
                              CommonSame(corr.rows[i].ticker),
                              [y \in DownYears |-> SameDate(y)])

\* the reference fell in two Decembers and the candidate rose in one of
\* them and fell by as much in the other: 50.0 percent, mean 0.00
C1_Witness ==
    /\ Answered
    /\ min_overlap = 2
    /\ \E i \in 1..Len(corr.rows) :
          /\ corr.rows[i].periodo = "Mismo mes"
          /\ corr.rows[i].n_anos = 2
          /\ corr.rows[i].subio_cuando_ref_bajo = 1
          /\ corr.rows[i].pct_subio = Num(500)
          /\ corr.rows[i].retorno_prom = Num(0)

\* C2: every "Mes siguiente" row is about month ref_month mod 12 + 1 and
\* matches each down-year Y of the reference with the candidate's return in
\* that month of year Y (ref_month 1..11) or in January of Y + 1 (ref_month
\* 12): n_anos counts the down-years that have such a return, subio those
\* where it is > 0, pct_subio and retorno_prom are taken over them.
C2_NextMonthRecord ==
    Answered =>
        \A i \in 1..Len(corr.rows) :
            corr.rows[i].periodo = "Mes siguiente" =>
                /\ corr.rows[i].ticker # ref_ticker
                /\ corr.rows[i].mes = (ref_month % 12) + 1
                /\ RowMatches(corr.rows[i], corr.rows[i].ticker,
                              CommonNext(corr.rows[i].ticker),
                              [y \in DownYears |-> NextDate(y)])

\* the reference fell in December of BaseYear and the candidate rose in
\* January of BaseYear + 1: one counted year, one rise
C2_Witness ==
    /\ Answered
    /\ ref_month = 12
    /\ min_overlap = 1
    /\ DownYears = {BaseYear, BaseYear + 1}
    /\ \E i \in 1..Len(corr.rows) :
          /\ corr.rows[i].periodo = "Mes siguiente"
          /\ corr.rows[i].mes = 1
          /\ corr.rows[i].n_anos = 1
          /\ corr.rows[i].subio_cuando_ref_bajo = 1
          /\ returns.data[corr.rows[i].ticker][DateOf(BaseYear + 1, 1)] > 0

\* the reference has at least one return in ref_month
RefObserved == \E y \in TableYears : Present(ref_ticker, DateOf(y, ref_month))

Emitted(t, periodo) == RowsOf(t, periodo) # {}

\* C3 as stated: for every candidate column and each period a row is
\* emitted iff the number of common years of that period is >= min_overlap.
C3_GateAsStated ==
    Answered =>
        \A t \in Range(returns.columns) \ {ref_ticker} :
            /\ Emitted(t, "Mismo mes") <=> Cardinality(CommonSame(t)) >= min_overlap
            /\ Emitted(t, "Mes siguiente") <=> Cardinality(CommonNext(t)) >= min_overlap

\* C3 (amended): for every candidate column and each period a row is
\* emitted iff the reference has at least one return in ref_month and the
\* number of common years of that period is >= min_overlap; there is at
\* most one row per candidate and period, every row belongs to a candidate
\* column and none to the reference itself.
C3_OverlapGate ==
    Answered =>
        /\ \A i \in 1..Len(corr.rows) :
              /\ corr.rows[i].ticker \in Range(returns.columns) \ {ref_ticker}
              /\ corr.rows[i].periodo \in {"Mismo mes", "Mes siguiente"}
        /\ \A t \in Range(returns.columns) \ {ref_ticker} :
              /\ Cardinality(RowsOf(t, "Mismo mes")) =
                    IF RefObserved /\ Cardinality(CommonSame(t)) >= min_overlap
                    THEN 1 ELSE 0
              /\ Cardinality(RowsOf(t, "Mes siguiente")) =
                    IF RefObserved /\ Cardinality(CommonNext(t)) >= min_overlap
                    THEN 1 ELSE 0

\* one candidate passes the gate in the same month with exactly min_overlap
\* common years and fails it in the next month
C3_Witness ==
    /\ Answered
    /\ min_overlap = 2
    /\ \E t \in Range(returns.columns) \ {ref_ticker} :
          /\ Cardinality(CommonSame(t)) = 2
          /\ Cardinality(CommonNext(t)) = 1
          /\ Cardinality(RowsOf(t, "Mismo mes")) = 1
          /\ RowsOf(t, "Mes siguiente") = {}

\* C4: when the reference has returns in ref_month and none of them is
\* negative, the result is empty, whatever min_overlap is (0 included).
C4_NoDownYearsEmpty ==
    (Answered /\ RefObserved /\ DownYears = {}) => corr.rows = <<>>

\* C5: when the reference has no return in ref_month, because its column
\* has none in that month or because it is no column of the table, the
\* call returns the empty result and raises nothing.
C5_UnobservedReferenceEmpty ==
    (pc = "done"
        /\ (ref_ticker \notin Range(returns.columns)
              \/ MonthData(returns.data[ref_ticker], ref_month) = <<>>))
    => corr = Returned(<<>>)

\* a >= b on floats: false when either is NaN
FloatGeq(a, b) == ~IsNaN(a) /\ ~IsNaN(b) /\ a.val >= b.val
FloatEq(a, b) == ~IsNaN(a) /\ ~IsNaN(b) /\ a.val = b.val

\* C6: the returned rows are in non-increasing order of pct_subio: for
\* every pair of adjacent rows i, i+1, pct_subio[i] >= pct_subio[i+1].
C6_SortedDescending ==
    Answered =>
        \A i \in 1..(Len(corr.rows) - 1) :
            FloatGeq(corr.rows[i].pct_subio, corr.rows[i + 1].pct_subio)

\* the position of ticker t in the column order
ColumnPos(t) == CHOOSE i \in 1..Len(returns.columns) : returns.columns[i] = t

\* the place of a row in the order of emission: columns in table order,
\* and for one column "Mismo mes" before "Mes siguiente"
EmissionRank(row) ==
    2 * ColumnPos(row.ticker) + (IF row.periodo = "Mismo mes" THEN 0 ELSE 1)

\* C7: rows with equal pct_subio keep their emission order in the result.
C7_StableSort ==
    Answered =>
        \A i, j \in 1..Len(corr.rows) :
            (i < j /\ FloatEq(corr.rows[i].pct_subio, corr.rows[j].pct_subio))
                => EmissionRank(corr.rows[i]) < EmissionRank(corr.rows[j])

(* ====================================================================== *)
(*                compute_monthly_returns: the claims                     *)
(* ====================================================================== *)
\* compute_monthly_returns(prices) has returned
Computed == pc \in {"returns", "compared"}

\* the dates before d at which instrument t has a price
EarlierPrices(t, d) == {e \in DOMAIN prices.data[t] : e < d}
\* the most recent of them
LastEarlier(t, d) ==
    CHOOSE e \in EarlierPrices(t, d) : \A g \in EarlierPrices(t, d) : g <= e

\* C8: for every instrument and every date t with a price, the return is
\* present exactly when the instrument has an earlier price, and is then
\* 100 * (p[t] - p[t_prev]) / p[t_prev] with t_prev the most recent earlier
\* date at which the instrument has a price, rows without one skipped.
C8_ReturnFromLastPresentPrice ==
    Computed =>
        \A t \in Range(prices.columns) :
            \A d \in DOMAIN prices.data[t] :
                /\ d \in DOMAIN returns.data[t] <=> EarlierPrices(t, d) # {}
                /\ d \in DOMAIN returns.data[t] =>
                      returns.data[t][d] * prices.data[t][LastEarlier(t, d)]
                        = 100 * (prices.data[t][d] - prices.data[t][LastEarlier(t, d)])

\* C9: two price tables with the same column for instrument X give the
\* same return cells for X, whatever their other columns are.
C9_NonInterference ==
    pc = "compared" =>
        \A t \in Range(prices.columns) \cap Range(other_prices.columns) :
            prices.data[t] = other_prices.data[t]
                => returns.data[t] = other_returns.data[t]

FirstPrice(t) == CHOOSE d \in DOMAIN prices.data[t] : \A e \in DOMAIN prices.data[t] : d <= e
LastPrice(t) == CHOOSE d \in DOMAIN prices.data[t] : \A e \in DOMAIN prices.data[t] : e <= d

\* instrument t has a price in every row between its first and last price
NoInternalGaps(t) ==
    \A d \in prices.index :
        (FirstPrice(t) <= d /\ d <= LastPrice(t)) => d \in DOMAIN prices.data[t]

\* C10: an instrument with a price in every table row between its first
\* and its last price has one return cell fewer than price cells, and no
\* return in its first month.
C10_ReturnCount ==
    Computed =>
        \A t \in Range(prices.columns) :
            NoInternalGaps(t) =>
                /\ Cardinality(DOMAIN returns.data[t])
                      = Cardinality(DOMAIN prices.data[t]) - 1
                /\ FirstPrice(t) \notin DOMAIN returns.data[t]

\* an instrument without gaps whose first price is not in the first row of
\* the table: two prices, one return
C10_Witness ==
    /\ Computed
    /\ \E t \in Range(prices.columns) :
          /\ NoInternalGaps(t)
          /\ \E d \in prices.index : d < FirstPrice(t)
          /\ Cardinality(DOMAIN prices.data[t]) = 2
          /\ Cardinality(DOMAIN returns.data[t]) = 1

(* ====================================================================== *)
(*          get_monthly_stats and the sector tab: the claims              *)
(* ====================================================================== *)
\* get_monthly_stats has returned
StatsDone == pc \in {"stats", "sectors drawn"}

\* the dates of the returns of instrument t in calendar month m
MonthReturns(t, m) == {d \in DOMAIN returns.data[t] : Month(d) = m}
Rises(t, m) == {d \in MonthReturns(t, m) : returns.data[t][d] > 0}
Falls(t, m) == {d \in MonthReturns(t, m) : returns.data[t][d] < 0}
Flats(t, m) == {d \in MonthReturns(t, m) : returns.data[t][d] = 0}

\* C11: every emitted record has veces_subio = the number of returns > 0,
\* veces_bajo = the number of returns < 0 and total_anos = the number of
\* present returns of its instrument in its calendar month; so
\* veces_subio + veces_bajo <= total_anos, strictly exactly when one of
\* those returns is 0.
C11_UpDownTotal ==
    StatsDone =>
        \A i \in 1..Len(stats) :
            LET rec == stats[i]
            IN  /\ rec.veces_subio = Cardinality(Rises(rec.ticker, rec.month))
                /\ rec.veces_bajo = Cardinality(Falls(rec.ticker, rec.month))
                /\ rec.total_anos = Cardinality(MonthReturns(rec.ticker, rec.month))
                /\ rec.veces_subio + rec.veces_bajo <= rec.total_anos
                /\ (rec.veces_subio + rec.veces_bajo < rec.total_anos)
                      <=> (Flats(rec.ticker, rec.month) # {})

\* a record of a month with a rise, a fall and a flat return
C11_Witness ==
    /\ StatsDone
    /\ \E i \in 1..Len(stats) :
         /\ stats[i].veces_subio = 1
         /\ stats[i].veces_bajo = 1
         /\ stats[i].total_anos = 3

\* C12: every emitted record has pct_sube = veces_subio / total_anos * 100
\* to one decimal, the denominator being all the observations of the
\* month, and 0 <= pct_sube <= 100.
C12_WinRate ==
    StatsDone =>
        \A i \in 1..Len(stats) :
            LET rec == stats[i]
            IN  /\ IsQuotient(rec.pct_sube, 100 * rec.veces_subio, rec.total_anos, 10)
                /\ rec.pct_sube.val >= 0
                /\ rec.pct_sube.val <= 1000

\* a record where the flat returns change the win rate: 1 rise in 3
\* observations, one of them flat, stored as 33.3
C12_Witness ==
    /\ StatsDone
    /\ \E i \in 1..Len(stats) :
         /\ stats[i].veces_subio = 1
         /\ stats[i].veces_bajo < 2
         /\ stats[i].total_anos = 3
         /\ stats[i].pct_sube = Num(333)

\* C13: there is exactly one record for each (instrument, calendar month)
\* with at least one present return and none for a pair without; the
\* empty return table gives the empty sequence of records.
C13_OneRecordPerPair ==
    StatsDone =>
        /\ \A i \in 1..Len(stats) :
              stats[i].ticker \in Range(returns.columns) /\ stats[i].month \in 1..12
        /\ \A t \in Range(returns.columns), m \in 1..12 :
              Cardinality({i \in 1..Len(stats) :
                              stats[i].ticker = t /\ stats[i].month = m})
                 = IF MonthReturns(t, m) # {} THEN 1 ELSE 0
        /\ returns = EmptyTable => stats = <<>>

\* an instrument with a record for March, of a single return, and none for April
C13_Witness ==
    /\ StatsDone
    /\ \E t \in Range(returns.columns) :
         /\ Cardinality(MonthReturns(t, 3)) = 1
         /\ MonthReturns(t, 4) = {}
         /\ \E i \in 1..Len(stats) : stats[i].ticker = t /\ stats[i].month = 3
         /\ \E u \in Range(returns.columns) : MonthReturns(u, 4) # {}

\* the sector tab has drawn the comparison
SectorsDrawn == pc = "sectors drawn"

\* the records of the instruments of sector s in calendar month m
SectorRecords(s, m) ==
    {i \in 1..Len(stats) : get_ticker_sector(stats[i].ticker) = s /\ stats[i].month = m}

RECURSIVE SumRecords(_, _)
SumRecords(S, metric_col) ==
    IF S = {} THEN 0
    ELSE LET i == CHOOSE j \in S : TRUE
         IN  stats[i][metric_col].val + SumRecords(S \ {i}, metric_col)

SectorRowsOf(s, m) ==
    {j \in 1..Len(sector_rows.rows) :
        sector_rows.rows[j].sector = s /\ sector_rows.rows[j].month = m}

\* C14: for each selected sector and each calendar month there is a row
\* if and only if some record belongs to an instrument of that sector for
\* that month; the row's valor is the arithmetic mean of the selected
\* metric over exactly those records and its n_tickers is the number of
\* the instruments that contribute; no row is of a sector not selected.
C14_SectorMean ==
    SectorsDrawn =>
        /\ \A j \in 1..Len(sector_rows.rows) :
              sector_rows.rows[j].sector \in Range(selected_sectors)
        /\ \A s \in Range(selected_sectors), m \in 1..12 :
              LET recs == SectorRecords(s, m)
              IN  /\ Cardinality(SectorRowsOf(s, m)) = IF recs # {} THEN 1 ELSE 0
                  /\ \A j \in SectorRowsOf(s, m) :
                        LET row == sector_rows.rows[j]
                        IN  /\ row.valor.den > 0
                            /\ row.valor.num * Cardinality(recs)
                                  = SumRecords(recs, metric) * row.valor.den
                            /\ row.n_tickers = Cardinality({stats[i].ticker : i \in recs})

\* two airlines with March win rates 50.0 and 100.0 give the row
\* (Aerolíneas, March, 75.0, 2); the other selected sector has no
\* instrument and no row
C14_Witness ==
    /\ SectorsDrawn
    /\ metric = "pct_sube"
    /\ selected_sectors = <<"Tecnología", "Aerolíneas">>
    /\ \E i, k \in SectorRecords("Aerolíneas", 3) :
          stats[i].pct_sube = Num(500) /\ stats[k].pct_sube = Num(1000)
    /\ sector_rows = Returned(<<[sector |-> "Aerolíneas", month |-> 3,
                                 valor |-> [num |-> 750, den |-> 1],
                                 n_tickers |-> 2]>>)

\* the product of the numbers of observations behind the records of S
RECURSIVE TotalsProduct(_)
TotalsProduct(S) ==
    IF S = {} THEN 1
    ELSE LET i == CHOOSE j \in S : TRUE
         IN  Cardinality(MonthReturns(stats[i].ticker, stats[i].month))
                * TotalsProduct(S \ {i})

\* the unrounded statistic of record i as a fraction num / den: the win
\* rate in tenths of a percent, the mean return in hundredths
Unrounded(i, metric_col) ==
    LET t == stats[i].ticker
        m == stats[i].month
    IN  [num |-> IF metric_col = "pct_sube"
                 THEN 1000 * Cardinality(Rises(t, m))
                 ELSE 100 * SumOver(returns.data[t], MonthReturns(t, m)),
         den |-> Cardinality(MonthReturns(t, m))]

\* the sum over S of the unrounded statistics, as a numerator over common
RECURSIVE SumUnrounded(_, _, _)
SumUnrounded(S, metric_col, common) ==
    IF S = {} THEN 0
    ELSE LET i == CHOOSE j \in S : TRUE
             u == Unrounded(i, metric_col)
         IN  u.num * (common \div u.den) + SumUnrounded(S \ {i}, metric_col, common)

\* C25: the valor of every sector row equals the arithmetic mean of the
\* unrounded win rates (or mean returns) of the instruments of the sector
\* in that month, not the mean of the values rounded to one (two) decimals.
C25_UnroundedSectorMean ==
    SectorsDrawn =>
        \A s \in Range(selected_sectors), m \in 1..12 :
            \A j \in SectorRowsOf(s, m) :
                LET recs   == SectorRecords(s, m)
                    common == TotalsProduct(recs)
                    row    == sector_rows.rows[j]
                IN  row.valor.num * Cardinality(recs) * common
                       = SumUnrounded(recs, metric, common) * row.valor.den

\* C29: no record has a not-a-number statistic, whatever the number of
\* observations of its (instrument, month) pair.
C29_AllStatisticsDefined ==
    StatsDone =>
        \A i \in 1..Len(stats) :
            /\ ~IsNaN(stats[i].pct_sube)
            /\ ~IsNaN(stats[i].retorno_prom)
            /\ ~IsNaN(stats[i].retorno_med)
            /\ ~IsNaN(stats[i].retorno_max)
            /\ ~IsNaN(stats[i].retorno_min)
            /\ ~IsNaN(stats[i].std)

(* ====================================================================== *)
(*                        sectors: the claims                             *)
(* ====================================================================== *)
SectorsReturned == pc = "sectors"

\* how many times x occurs in sequence q
Occurrences(q, x) == Cardinality({i \in 1..Len(q) : q[i] = x})

\* the items of the result whose list holds ticker t
ItemsWith(t) == {k \in 1..Len(sectors_data) : t \in Range(sectors_data[k].tickers)}

\* C15: every identifier resolves to one sector name, the one of
\* SECTOR_MAP or "Otros" when SECTOR_MAP has none; every ticker passed to
\* get_available_sectors is in the list of exactly one sector, the one it
\* resolves to, as often as it was passed; the lists hold nothing else and
\* the sectors come in non-increasing order of the lengths of their lists.
C15_SectorPartition ==
    SectorsReturned =>
        /\ \A i \in 1..Len(tickers) :
              LET t == tickers[i]
              IN  /\ Cardinality(ItemsWith(t)) = 1
                  /\ \A k \in ItemsWith(t) :
                        /\ sectors_data[k].sector =
                              IF t \in DOMAIN SECTOR_MAP THEN SECTOR_MAP[t] ELSE "Otros"
                        /\ Occurrences(sectors_data[k].tickers, t) = Occurrences(tickers, t)
        /\ \A k \in 1..Len(sectors_data) :
              /\ sectors_data[k].tickers # <<>>
              /\ Range(sectors_data[k].tickers) \subseteq Range(tickers)
              /\ \A j \in 1..Len(sectors_data) :
                    j # k => sectors_data[j].sector # sectors_data[k].sector
        /\ \A k \in 1..(Len(sectors_data) - 1) :
              Len(sectors_data[k].tickers) >= Len(sectors_data[k + 1].tickers)

\* an unmapped ticker first, two airlines around a bank: the airlines'
\* sector moves to the front and the unmapped ticker is under "Otros"
C15_Witness ==
    /\ SectorsReturned
    /\ tickers = <<"ZZZ", "AAL", "C", "DAL">>
    /\ sectors_data = <<[sector |-> "Aerolíneas", tickers |-> <<"AAL", "DAL">>],
                        [sector |-> "Otros", tickers |-> <<"ZZZ">>],
                        [sector |-> "Bancos", tickers |-> <<"C">>]>>

(* ====================================================================== *)
(*                     the repeated calls: the claims                     *)
(* ====================================================================== *)
\* compute_monthly_returns has been called once on the price table
ReturnsCalled == pc = "call returns again"

\* the first row of the price table
FirstRow == CHOOSE d \in prices.index : \A e \in prices.index : d <= e

\* C26: the return table has a row for date d if and only if some
\* instrument has a return at d; the rows of the price table in which no
\* instrument has a return, the first row among them, are not rows of the
\* return table.
C26_RowsWithReturn ==
    ReturnsCalled =>
        /\ returns.index \subseteq prices.index
        /\ \A d \in prices.index :
              d \in returns.index
                 <=> \E t \in Range(returns.columns) : d \in DOMAIN returns.data[t]
        /\ \A d \in prices.index :
              d \in returns.index
                 <=> \E t \in Range(prices.columns) :
                        /\ d \in DOMAIN prices.data[t]
                        /\ HasPrevRow(prices.index, d)
                        /\ PrevRow(prices.index, d) \in DOMAIN prices.data[t]
        /\ FirstRow \notin returns.index

\* a table of three rows of which the return table keeps the second
\* only: the third is removed like the first
C26_Witness ==
    /\ ReturnsCalled
    /\ Cardinality(prices.index) = 3
    /\ Cardinality(returns.index) = 1
    /\ \E d \in prices.index \ returns.index : d # FirstRow /\ d > FirstRow
    /\ \E d \in returns.index : \A e \in prices.index \ returns.index : e # d

Resampled == pc = "monthly"

\* the observations of the close series in calendar month d
ObservedIn(d) == {i \in 1..Len(close) : close[i].date = d}

\* C16: whatever the order of the observations, the monthly series has at
\* most one price per calendar month, an entry only for a month with an
\* observation (and one for each such month), and the price of a month is
\* that of an observation whose date is the latest of the month.
C16_LastOfMonth ==
    Resampled =>
        /\ \A k, l \in 1..Len(monthly) : monthly[k].date = monthly[l].date => k = l
        /\ \A k \in 1..Len(monthly) : ObservedIn(monthly[k].date) # {}
        /\ \A i \in 1..Len(close) : \E k \in 1..Len(monthly) : monthly[k].date = close[i].date
        /\ \A k \in 1..Len(monthly) :
              \E i \in ObservedIn(monthly[k].date) :
                 /\ monthly[k].price = close[i].price
                 /\ \A j \in ObservedIn(monthly[k].date) : close[j].day <= close[i].day

\* a series out of order: the later day of December comes first, then
\* February, then the earlier day of December; January has no observation
C16_Witness ==
    /\ Resampled
    /\ close = <<[date |-> DateOf(BaseYear, 12), day |-> 15, price |-> 5],
                 [date |-> DateOf(BaseYear + 1, 2), day |-> 14, price |-> 2],
                 [date |-> DateOf(BaseYear, 12), day |-> 14, price |-> 4]>>
    /\ monthly = <<[date |-> DateOf(BaseYear, 12), price |-> 5],
                   [date |-> DateOf(BaseYear + 1, 2), price |-> 2]>>

\* download_data has returned
Downloaded == pc = "downloaded"

\* the answer for request i is a table
IsTable(i) == provider[i].kind = "table"

\* the raw observations of the close series of request i and the calendar
\* months they fall in
RawObservations(i) ==
    {r \in 1..provider[i].n :
        yf_download(provider[i], requested[i]).data[2][r].num}
ObservedMonths(i) == {shape_date(provider[i], r) : r \in RawObservations(i)}

\* C17: an instrument whose close series has at least 50 raw observations
\* and whose monthly series has at least 10 months is a column of the
\* price table.
C17_ThresholdsInclusive ==
    Downloaded =>
        \A i \in 1..Len(requested) :
            (/\ IsTable(i)
             /\ Cardinality(RawObservations(i)) >= 50
             /\ Cardinality(ObservedMonths(i)) >= 10)
                => requested[i] \in Range(prices.columns)

\* the items of all_data of ticker t
ItemsOf(t) == {k \in 1..Len(all_data) : all_data[k].ticker = t}

\* the months of the monthly series stored for ticker t
StoredMonths(t) ==
    UNION {{all_data[k].monthly[j].date : j \in 1..Len(all_data[k].monthly)} :
              k \in ItemsOf(t)}

\* C18: the columns of the price table are the included instruments; its
\* rows are the union of the months of their monthly series; a cell is
\* present, with the monthly price, exactly when the instrument's series
\* has that month; no column is entirely absent.
C18_Alignment ==
    (Downloaded /\ ~st_error) =>
        /\ Range(prices.columns) = {all_data[k].ticker : k \in 1..Len(all_data)}
        /\ prices.index = UNION {StoredMonths(t) : t \in Range(prices.columns)}
        /\ \A t \in Range(prices.columns) :
              /\ DOMAIN prices.data[t] # {}
              /\ \A d \in prices.index :
                    /\ d \in DOMAIN prices.data[t] <=> d \in StoredMonths(t)
                    /\ d \in DOMAIN prices.data[t] =>
                          \E k \in ItemsOf(t) : \E j \in 1..Len(all_data[k].monthly) :
                             /\ all_data[k].monthly[j].date = d
                             /\ all_data[k].monthly[j].price = prices.data[t][d]

\* two instruments included, one starting a month later and the other
\* with a month missing: each has a row the other has no price in
C18_Witness ==
    /\ Downloaded
    /\ ~st_error
    /\ Len(prices.columns) = 2
    /\ \E t, u \in Range(prices.columns) :
          /\ \E d \in prices.index : d \in DOMAIN prices.data[t] /\ d \notin DOMAIN prices.data[u]
          /\ \E d \in prices.index : d \in DOMAIN prices.data[u] /\ d \notin DOMAIN prices.data[t]
          /\ Cardinality(prices.index) > Cardinality(DOMAIN prices.data[t])

\* the instrument of request i is a column when it is downloaded alone
SucceedsAlone(i) ==
    requested[i] \in
        Range(download_data(<<requested[i]>>, <<provider[i]>>).result.columns)

\* C21: whatever fails, the loop goes through the whole list, and the
\* columns of the table returned are exactly the requested instruments
\* that succeed when downloaded alone, whatever the outcome and the
\* position of the others; the whole call gives what the turns of the
\* loop give.
C21_PartialFailure ==
    Downloaded =>
        /\ next_ticker = Len(requested) + 1
        /\ Range(prices.columns) = {requested[i] : i \in {j \in 1..Len(requested) : SucceedsAlone(j)}}
        /\ prices = download_data(requested, provider).result

\* the download of the first instrument raises and the second instrument
\* is the only column of the table
C21_Witness ==
    /\ Downloaded
    /\ Len(requested) = 2
    /\ provider[1].kind = "raise"
    /\ provider[2].kind = "table"
    /\ prices.columns = <<requested[2]>>
    /\ Len(failed) = 1

\* C22: after the batch every requested instrument is a column of the
\* table returned or an entry of failed.
C22_FailuresCollected ==
    Downloaded =>
        \A i \in 1..Len(requested) :
            \/ requested[i] \in Range(prices.columns)
            \/ \E k \in 1..Len(failed) : failed[k].ticker = requested[i]

(* ====================================================================== *)
(*                  _extract_close_series: the claims                     *)
(* ====================================================================== *)
Extracted == pc = "extracted"

\* C19: _extract_close_series does not raise; its result is None or a
\* non-empty series of numeric entries, which are the numeric cells of one
\* column of the table, each in its row, the cells that are not numeric
\* left out; a column with no numeric cell gives None.
C19_NeverRaises ==
    Extracted =>
        /\ extracted.fault = "none"
        /\ \/ extracted.value = None
           \/ /\ ~extracted.value.absent
              /\ extracted.value.column \in 1..Len(df.columns)
              /\ LET cells == df.data[extracted.value.column]
                     entries == extracted.value.entries
                 IN  /\ Len(entries) > 0
                     /\ \A k \in 1..Len(entries) :
                           /\ entries[k].row \in 1..df.rows
                           /\ cells[entries[k].row].num
                           /\ entries[k].val = cells[entries[k].row].val
                     /\ \A k, l \in 1..Len(entries) :
                           k < l => entries[k].row < entries[l].row
                     /\ \A r \in 1..df.rows :
                           cells[r].num <=> \E k \in 1..Len(entries) : entries[k].row = r

\* a MultiIndex of one level, on which the selection raises IndexError,
\* gives None
C19_Witness ==
    /\ Extracted
    /\ df.kind = "multi1"
    /\ ~IsEmptyFrame(df)
    /\ \E r \in 1..df.rows : df.data[1][r].num
    /\ extracted = [fault |-> "none", value |-> None]

\* the table has a "Close" field for ticker under one of the three arrangements
HasCloseFor(f, ticker) ==
    \E i \in 1..Len(f.columns) :
        \/ f.kind = "flat" /\ f.columns[i] = "Close"
        \/ f.kind = "multi" /\ f.columns[i] \in {<<"Close", ticker>>, <<ticker, "Close">>}

\* column position c is a "Close" field of ticker
IsCloseOf(f, c, ticker) ==
    \/ f.kind = "flat" /\ f.columns[c] = "Close"
    \/ f.kind = "multi" /\ f.columns[c] \in {<<"Close", ticker>>, <<ticker, "Close">>}

\* C20: the result is None when the table is empty or has no "Close" field
\* for the ticker asked for under any of the three arrangements, and a
\* series returned is never taken from another column.
C20_AbsentWithoutClose ==
    Extracted =>
        /\ (df.kind = "none" \/ IsEmptyFrame(df) \/ ~HasCloseFor(df, wanted))
              => extracted.value = None
        /\ extracted.value # None => IsCloseOf(df, extracted.value.column, wanted)

(* ====================================================================== *)
(*                 the page script and the session: the claims            *)
(* ====================================================================== *)
\* a run of the script that enters the load block
LoadRun == pc = "script" /\ ("prices" \notin DOMAIN session \/ load_btn)

\* C23: when a load leaves all_data without any instrument, download_data
\* shows the error and returns the empty table, the run stops without
\* computing returns or statistics, and st.session_state is as it was.
C23_TotalFailureHalts ==
    [][(LoadRun /\ all_data' = <<>>) =>
          /\ st_error'
          /\ prices' = EmptyTable
          /\ returns' = EmptyTable
          /\ stats' = <<>>
          /\ available_tickers' = <<>>
          /\ pc' = "stopped"
          /\ session' = session]_vars

\* a reload in which every ticker fails, with the session of an earlier
\* load still in place
C23_Witness ==
    /\ pc = "stopped"
    /\ st_error
    /\ load_btn
    /\ Len(requested) = 2
    /\ Len(failed) = 2
    /\ DOMAIN session = SessionKeys
    /\ session.available_tickers = <<"AAPL">>

\* C27: st.session_state holds none of the four keys or all of them, and
\* then returns = compute_monthly_returns(prices), stats =
\* get_monthly_stats(returns) and available_tickers = the columns of prices
\* = the columns of returns; the names the tabs read are those values and
\* the reference ticker handed to find_correlations is a column of returns.
C27_SessionCoherent ==
    /\ DOMAIN session = {} \/ DOMAIN session = SessionKeys
    /\ DOMAIN session = SessionKeys =>
          /\ session.returns = compute_monthly_returns(session.prices)
          /\ session.stats = get_monthly_stats(session.returns)
          /\ session.available_tickers = session.prices.columns
          /\ session.available_tickers = session.returns.columns
          /\ session.prices.columns # <<>>
    /\ pc = "rendered" =>
          /\ DOMAIN session = SessionKeys
          /\ prices = session.prices
          /\ returns = session.returns
          /\ stats = session.stats
          /\ available_tickers = session.available_tickers
          /\ ref_ticker \in Range(session.returns.columns)
          /\ corr \in find_correlations(session.returns, ref_ticker, ref_month,
                                        min_overlap)

\* a reload that replaced a one-instrument session by a two-instrument
\* one, the second instrument chosen as reference
C27_Witness ==
    /\ pc = "rendered"
    /\ load_btn
    /\ DOMAIN session = SessionKeys
    /\ session.available_tickers = <<"AAPL", "MSFT">>
    /\ ref_ticker = "MSFT"
    /\ loaded_from = <<requested, years_back>>

\* C28: st.session_state changes only in a run that finds no "prices" key
\* or has the button pressed; a run with other years or another ticker
\* list and no button leaves the session as it was.
C28_RecomputedOnlyOnLoad ==
    [][/\ session' # session => LoadRun
       /\ (pc = "script" /\ ~LoadRun) =>
             /\ session' = session
             /\ loaded_from' = loaded_from
             /\ prices' = session.prices
             /\ returns' = session.returns
             /\ stats' = session.stats
             /\ available_tickers' = session.available_tickers]_vars

\* a run rendered from a session loaded for another ticker list and other
\* years than those now selected
C28_Witness ==
    /\ pc = "rendered"
    /\ ~load_btn
    /\ DOMAIN session = SessionKeys
    /\ loaded_from[1] # requested
    /\ loaded_from[2] # years_back
    /\ session.available_tickers = <<"AAPL", "MSFT">>
    /\ requested = <<"AAPL">>
    /\ available_tickers = <<"AAPL", "MSFT">>

====
